---- MODULE Spec2Model ----
(***************************************************************************)
(* Model of trackerdb's URL helpers:                                       *)
(*   - safeParse / parseUrl          (src/lib/url-parse.ts 8-24)           *)
(*   - the CLI regression runner     (src/lib/url-parse.ts 46-102)         *)
(*   - assertUrl and partition       (src/test/helpers.ts 27-58)           *)
(*                                                                         *)
(* JavaScript values are records tagged by the field t, so that values of  *)
(* different JavaScript types can be compared.  A call's outcome is a      *)
(* completion record [kind, value] with kind "return" or "throw".          *)
(***************************************************************************)
EXTENDS Integers, Sequences, FiniteSets

VARIABLES
    op,          \* last helper called: "none", "safeParse", "assertUrl"
    url,         \* the argument of that call (a JavaScript value)
    lib,         \* how the tldts parser behaved during that call
    completion,  \* how that call completed: [kind, value]
    arr,         \* partition: the array argument
    arr0,        \* partition: the array as it was when partition was called
    pred,        \* partition: the set of items the predicate accepts
    idx,         \* partition: number of items the for-of loop has consumed
    matches,     \* partition: local array `matches`
    rest,        \* partition: local array `rest`
    ppc,         \* partition: "idle", "loop", "done"
    platform,    \* runner: process.platform
    rpc,         \* runner: position of main()
    promise,     \* runner: state of the promise runTests returns
    child,       \* runner: what the spawned subprocess still has to emit
    closeCode,   \* runner: code the 'close' event carried, NoCode before it
    errSeen,     \* runner: TRUE once the 'error' event was emitted
    spawned,     \* runner: number of spawn() calls made
    exits,       \* runner: sequence of process.exit codes
    out          \* runner: lines written to stdout / stderr

parseVars == <<op, url, lib, completion>>
partVars == <<arr, arr0, pred, idx, matches, rest, ppc>>
runVars == <<platform, rpc, promise, child, closeCode, errSeen, spawned, exits, out>>
vars == <<op, url, lib, completion, arr, arr0, pred, idx, matches, rest, ppc,
          platform, rpc, promise, child, closeCode, errSeen, spawned, exits, out>>

----------------------------------------------------------------------------
(* Bounds *)

MaxToks == 3
MaxArr == 4
NumItems == 3

----------------------------------------------------------------------------
(* JavaScript values *)

Null == [t |-> "null"]
Undefined == [t |-> "undefined"]
Bool(b) == [t |-> "boolean", b |-> b]
Str(s) == [t |-> "string", s |-> s]
Num(n) == [t |-> "number", n |-> n]
Url(toks) == [t |-> "url", toks |-> toks]
ErrorOf(class, message) == [t |-> "error", class |-> class, message |-> message]

Return(v) == [kind |-> "return", value |-> v]
Throw(v) == [kind |-> "throw", value |-> v]

\* ToBoolean of a value, as `if (!v)` and assert(v) apply it.
Truthy(v) ==
    CASE v.t = "null" -> FALSE
      [] v.t = "undefined" -> FALSE
      [] v.t = "boolean" -> v.b
      [] v.t = "number" -> v.n # 0
      [] v.t = "string" -> v.s # ""
      [] v.t = "url" -> v.toks # <<>>
      [] OTHER -> TRUE

\* Property read obj.f on an object: a missing property reads as undefined.
Get(obj, f) == IF f \in DOMAIN obj THEN obj[f] ELSE Undefined

----------------------------------------------------------------------------
(* URL strings: a string is the concatenation of a sequence of tokens. *)

SchemeToks == {"http://", "https://", "ftp://"}
HostToks == {"example.com", "example.co.uk", "localhost", "127.0.0.1", "x2100"}
Toks == SchemeToks \cup HostToks \cup {" ", ".", "/path"}

\* Number of characters of a token; "x2100" stands for 'x'.repeat(2100).
TokLen(k) ==
    CASE k = "http://" -> 7
      [] k = "https://" -> 8
      [] k = "ftp://" -> 6
      [] k = "example.com" -> 11
      [] k = "example.co.uk" -> 13
      [] k = "localhost" -> 9
      [] k = "127.0.0.1" -> 9
      [] k = "x2100" -> 2100
      [] k = "/path" -> 5
      [] OTHER -> 1

RECURSIVE StrLen(_)
StrLen(toks) == IF toks = <<>> THEN 0 ELSE TokLen(Head(toks)) + StrLen(Tail(toks))

TokSeqs == UNION {[1..n -> Toks] : n \in 0..MaxToks}

\* The values a caller may pass: strings, and the non-strings of the suite.
Inputs == {Url(s) : s \in TokSeqs} \cup {Num(123), Null, Undefined}

\* url.startsWith('http'): of the tokens only the two HTTP schemes begin so.
StartsWithHttp(u) ==
    u.t = "url" /\ u.toks # <<>> /\ Head(u.toks) \in {"http://", "https://"}

----------------------------------------------------------------------------
(* The tldts parser, which parseUrl delegates to.  It is a library outside  *)
(* the repository: whether it returns a parse result, returns nothing or    *)
(* raises is the environment's choice, fixed per call in the variable lib.  *)

\* The values the library may raise.
Thrown ==
    {ErrorOf("ParseError", "lib"), ErrorOf("TypeError", "lib"),
     ErrorOf("RangeError", "lib"), Str("boom"), Null, Undefined}

LibBehaviours ==
    {[kind |-> "result", v |-> Null], [kind |-> "falsy", v |-> Null],
     [kind |-> "falsy", v |-> Undefined]}
        \cup {[kind |-> "throw", v |-> x] : x \in Thrown}

\* The host the parser examines: the token after the scheme, if it is a host.
HostOf(u) ==
    IF u.t # "url" THEN "none"
    ELSE LET i == IF u.toks # <<>> /\ Head(u.toks) \in SchemeToks THEN 2 ELSE 1
         IN  IF Len(u.toks) >= i /\ u.toks[i] \in HostToks THEN u.toks[i] ELSE "none"

\* Registrable domain and public suffix of the hosts with a recognised suffix.
PublicHosts == {"example.com", "example.co.uk"}
SuffixOf(h) == IF h = "example.co.uk" THEN "co.uk" ELSE "com"

\* The ParseResult the parser builds when it returns one: only the host is
\* examined; IP literals and single-label hosts are private and not valid.
LibResult(u) ==
    LET h == HostOf(u)
    IN  IF h \in PublicHosts
        THEN [t |-> "ParseResult", url |-> u, domain |-> Str(h),
              publicSuffix |-> Str(SuffixOf(h)),
              isPrivate |-> Bool(FALSE), isValid |-> Bool(TRUE)]
        ELSE [t |-> "ParseResult", url |-> u, domain |-> Null,
              publicSuffix |-> Null,
              isPrivate |-> Bool(h # "none"), isValid |-> Bool(FALSE)]

\* The expression `parsed` is initialised with.
tldtsParse(u, l) ==
    CASE l.kind = "result" -> Return(LibResult(u))
      [] l.kind = "falsy" -> Return(l.v)
      [] OTHER -> Throw(l.v)

----------------------------------------------------------------------------
(* src/lib/url-parse.ts: parseUrl and safeParse *)

\* parseUrl with the `if (!parsed)` check dropped.
parseUrl_NoCheck(u, l) == tldtsParse(u, l)

parseUrl(u, l) ==
    LET parsed == tldtsParse(u, l)
    IN  IF parsed.kind = "throw" THEN parsed
        ELSE IF ~Truthy(parsed.value)
             THEN Throw(ErrorOf("ParseError", "Invalid URL"))
             ELSE Return(parsed.value)

\* safeParse with the try/catch dropped.
safeParse_NoCatch(u, l) ==
    LET c == parseUrl(u, l)
    IN  IF c.kind = "return"
        THEN Return([t |-> "object", result |-> c.value, error |-> Null])
        ELSE c

safeParse(u, l) ==
    LET c == parseUrl(u, l)
    IN  IF c.kind = "return"
        THEN Return([t |-> "object", result |-> c.value, error |-> Null])
        ELSE Return([t |-> "object", result |-> Null, error |-> c.value])

----------------------------------------------------------------------------
(* src/test/helpers.ts: assertUrl *)

AssertionError == ErrorOf("AssertionError", "assert")

assertUrl(u, l) ==
    LET c == safeParse(u, l)
    IN  IF c.kind = "throw" THEN c
        ELSE IF ~Truthy(Get(c.value, "isValid")) THEN Throw(AssertionError)
        ELSE IF u.t # "url" THEN Throw(ErrorOf("TypeError", "startsWith"))
        ELSE IF ~StartsWithHttp(u) THEN Throw(AssertionError)
        ELSE Return(Undefined)

----------------------------------------------------------------------------
(* Calls of the helpers: the argument and the parser's behaviour are drawn  *)
(* in the initial state, one call is made.                                  *)

Pending == [kind |-> "pending", value |-> Null]

ParseIdle ==
    /\ op = "none" /\ url = Null /\ lib = [kind |-> "result", v |-> Null]
    /\ completion = Pending

CallSafeParse ==
    /\ op = "none"
    /\ op' = "safeParse"
    /\ completion' = safeParse(url, lib)
    /\ UNCHANGED <<url, lib, partVars, runVars>>

CallAssertUrl ==
    /\ op = "none"
    /\ op' = "assertUrl"
    /\ completion' = assertUrl(url, lib)
    /\ UNCHANGED <<url, lib, partVars, runVars>>

----------------------------------------------------------------------------
(* src/test/helpers.ts: partition, one action per iteration of its loop *)

Items == 1..NumItems
Arrays == UNION {[1..n -> Items] : n \in 0..MaxArr}

PartIdle ==
    /\ arr = <<>> /\ arr0 = <<>> /\ pred = {} /\ idx = 0
    /\ matches = <<>> /\ rest = <<>> /\ ppc = "idle"

\* const matches = []; const rest = [];
PartitionCall ==
    /\ ppc = "idle"
    /\ matches' = <<>> /\ rest' = <<>> /\ idx' = 0
    /\ ppc' = "loop"
    /\ UNCHANGED <<arr, arr0, pred, parseVars, runVars>>

\* The loop body with the two branches exchanged.
PartitionStep_Swapped ==
    /\ ppc = "loop" /\ idx < Len(arr)
    /\ LET x == arr[idx + 1]
       IN  IF x \in pred
           THEN rest' = Append(rest, x) /\ UNCHANGED matches
           ELSE matches' = Append(matches, x) /\ UNCHANGED rest
    /\ idx' = idx + 1
    /\ UNCHANGED <<arr, arr0, pred, ppc, parseVars, runVars>>

\* for (const x of arr) { if (pred(x)) matches.push(x) else rest.push(x) }
PartitionStep ==
    /\ ppc = "loop" /\ idx < Len(arr)
    /\ LET x == arr[idx + 1]
       IN  IF x \in pred
           THEN matches' = Append(matches, x) /\ UNCHANGED rest
           ELSE rest' = Append(rest, x) /\ UNCHANGED matches
    /\ idx' = idx + 1
    /\ UNCHANGED <<arr, arr0, pred, ppc, parseVars, runVars>>

\* return [matches, rest];
PartitionReturn ==
    /\ ppc = "loop" /\ idx = Len(arr)
    /\ ppc' = "done"
    /\ UNCHANGED <<arr, arr0, pred, idx, matches, rest, parseVars, runVars>>

----------------------------------------------------------------------------
(* src/lib/url-parse.ts: the CLI runner, main() and runTests() *)

Platforms == {"linux", "darwin", "win32"}

NotClosed == [t |-> "none"]
NoPromise == [state |-> "none", value |-> Null]
NoChild == [pending |-> {}, code |-> Null, err |-> Null]

\* errno of the spawn failures Node reports through the 'error' event.
SpawnErrors == {"ENOENT", "EACCES", "EAGAIN"}
Errno(e) == CASE e = "ENOENT" -> 0 - 2 [] e = "EACCES" -> 0 - 13 [] OTHER -> 0 - 11

\* What a spawned subprocess emits.  A subprocess that ran emits 'close' with
\* its exit code, or with null when a signal killed it.  A failed spawn emits
\* 'error', and 'close' (if it is emitted at all) then carries the negative
\* errno: the runner neither kills the child nor sends to it, so 'error' has
\* no other cause.  The order of delivery is left open.
ChildFates ==
    {[pending |-> {"close"}, code |-> c, err |-> Null] :
        c \in {Num(0), Num(1), Num(2), Null}}
    \cup {[pending |-> p, code |-> Num(Errno(e)), err |-> ErrorOf("Error", e)] :
            e \in SpawnErrors, p \in {{"error"}, {"error", "close"}}}

Line(text, arg) == [line |-> text, arg |-> arg]

\* resolve / reject: only the first settlement of a promise takes effect.
Settle(p, state, value) ==
    IF p.state = "pending" THEN [state |-> state, value |-> value] ELSE p

RunIdle ==
    /\ rpc = "start" /\ promise = NoPromise /\ child = NoChild
    /\ closeCode = NotClosed /\ errSeen = FALSE /\ spawned = 0
    /\ exits = <<>> /\ out = <<>>

\* main(): logEnvironment();
LogEnvironment ==
    /\ rpc = "start"
    /\ out' = Append(out, Line("Environment Info", Str(platform)))
    /\ rpc' = "logged"
    /\ UNCHANGED <<platform, promise, child, closeCode, errSeen, spawned, exits,
                   parseVars, partVars>>

\* runTests(): the promise executor spawns the subprocess and registers the
\* two handlers; main() then waits on the promise.  A spawn() that raises
\* (an errno Node does not turn into an 'error' event) rejects the promise
\* from within the executor, and no handler is registered.
RunTests ==
    /\ rpc = "logged"
    /\ out' = Append(out, Line("Starting URL Regression Test Suite", Null))
    /\ spawned' = spawned + 1
    /\ \/ /\ child' \in ChildFates
          /\ promise' = [state |-> "pending", value |-> Null]
       \/ /\ child' = NoChild
          /\ promise' = [state |-> "rejected", value |-> ErrorOf("Error", "ENOMEM")]
    /\ rpc' = "awaiting"
    /\ UNCHANGED <<platform, closeCode, errSeen, exits, parseVars, partVars>>

\* The 'close' handler resolving whatever the exit code is.
OnClose_AlwaysResolve ==
    /\ rpc = "awaiting" /\ "close" \in child.pending
    /\ child' = [child EXCEPT !.pending = @ \ {"close"}]
    /\ closeCode' = child.code
    /\ out' = Append(out, Line("Tests passed", Null))
    /\ promise' = Settle(promise, "fulfilled", Bool(TRUE))
    /\ UNCHANGED <<platform, rpc, errSeen, spawned, exits, parseVars, partVars>>

\* nodeProcess.on('close', (code) => ...)
OnClose ==
    /\ rpc = "awaiting" /\ "close" \in child.pending
    /\ child' = [child EXCEPT !.pending = @ \ {"close"}]
    /\ closeCode' = child.code
    /\ IF child.code = Num(0)
       THEN /\ out' = Append(out, Line("Tests passed", Null))
            /\ promise' = Settle(promise, "fulfilled", Bool(TRUE))
       ELSE /\ out' = Append(out, Line("Tests failed with exit code", child.code))
            /\ promise' = Settle(promise, "rejected",
                                 ErrorOf("Error", "Test process exited"))
    /\ UNCHANGED <<platform, rpc, errSeen, spawned, exits, parseVars, partVars>>

\* nodeProcess.on('error', (err) => ...)
OnError ==
    /\ rpc = "awaiting" /\ "error" \in child.pending
    /\ child' = [child EXCEPT !.pending = @ \ {"error"}]
    /\ errSeen' = TRUE
    /\ out' = Append(out, Line("Error running tests", child.err))
    /\ promise' = Settle(promise, "rejected", child.err)
    /\ UNCHANGED <<platform, rpc, closeCode, spawned, exits, parseVars, partVars>>

\* main() resumes after `await runTests()`: process.exit(0), or the catch.
MainResume ==
    /\ rpc = "awaiting" /\ promise.state \in {"fulfilled", "rejected"}
    /\ IF promise.state = "fulfilled"
       THEN /\ exits' = Append(exits, 0)
            /\ UNCHANGED out
       ELSE /\ out' = Append(out, Line("Fatal error", promise.value))
            /\ exits' = Append(exits, 1)
    /\ rpc' = "exited"
    /\ UNCHANGED <<platform, promise, child, closeCode, errSeen, spawned,
                   parseVars, partVars>>

----------------------------------------------------------------------------
(* Specifications *)

\* Calls of safeParse and assertUrl.
Init ==
    /\ url \in Inputs /\ lib \in LibBehaviours
    /\ op = "none" /\ completion = Pending
    /\ PartIdle /\ platform = "linux" /\ RunIdle

Next == CallSafeParse \/ CallAssertUrl

Spec == Init /\ [][Next]_vars

\* A call of partition.
InitPartition ==
    /\ arr \in Arrays /\ arr0 = arr /\ pred \in SUBSET Items
    /\ idx = 0 /\ matches = <<>> /\ rest = <<>> /\ ppc = "idle"
    /\ ParseIdle /\ platform = "linux" /\ RunIdle

NextPartition == PartitionCall \/ PartitionStep \/ PartitionReturn

SpecPartition == InitPartition /\ [][NextPartition]_vars

\* A run of the CLI runner.  The event loop runs every handler whose event
\* was emitted and every continuation whose promise settled.
InitRunner ==
    /\ platform \in Platforms /\ RunIdle
    /\ ParseIdle /\ PartIdle

NextRunner == LogEnvironment \/ RunTests \/ OnClose \/ OnError \/ MainResume

SpecRunner == InitRunner /\ [][NextRunner]_vars /\ WF_vars(NextRunner)

----------------------------------------------------------------------------
(* Vocabulary of the properties *)

IsParseError(v) == v.t = "error" /\ v.class = "ParseError"

\* '   '.trim() === '' : the string holds nothing but whitespace.
IsBlank(toks) == \A i \in 1..Len(toks) : toks[i] = " "

\* The inputs the safe-parse contract rejects: not a string, blank, without
\* scheme, with a scheme other than http / https, or longer than 2048.
InvalidInput(u) ==
    \/ u.t # "url"
    \/ IsBlank(u.toks)
    \/ Head(u.toks) \notin {"http://", "https://"}
    \/ StrLen(u.toks) > 2048

\* The invalid inputs of the regression suite.
SuiteInvalidInputs ==
    {Url(<<>>), Url(<<" ", " ", " ">>), Url(<<"example.com">>),
     Url(<<"ftp://", "example.com">>), Url(<<"https://", "x2100">>),
     Num(123), Null, Undefined}

PrivateHosts == {"127.0.0.1", "localhost", "x2100"}

\* The parser returned a parse result for an http(s) URL with host in hosts.
ParsedHttpHost(hosts) ==
    /\ url.t = "url" /\ StartsWithHttp(url)
    /\ lib.kind = "result" /\ HostOf(url) \in hosts

----------------------------------------------------------------------------
(* Properties of safeParse *)

ExactlyOneNonNull ==
    op = "safeParse" =>
        /\ completion.kind = "return"
        /\ (completion.value.result = Null) # (completion.value.error = Null)

\* C3: an input that violates the input constraints is answered with
\* {result: null, error: ParseError}, whatever the parser does with it.
InputConstraintsEnforced ==
    (op = "safeParse" /\ InvalidInput(url)) =>
        /\ completion.kind = "return"
        /\ completion.value.result = Null
        /\ IsParseError(completion.value.error)

\* C4: when the parser raises or yields no result, safeParse returns
\* {result: null, error} with error a non-null ParseError.
ParserFailureYieldsParseError ==
    (op = "safeParse" /\ lib.kind \in {"throw", "falsy"}) =>
        /\ completion.kind = "return"
        /\ completion.value.result = Null
        /\ IsParseError(completion.value.error)

\* C5: for an http(s) URL whose host has a recognised public suffix, error is
\* null, the result is valid with domain and publicSuffix, and the caller
\* reads isValid, domain and publicSuffix on the value safeParse returned.
ValidUrlFieldsReadable ==
    (op = "safeParse" /\ ParsedHttpHost(PublicHosts)) =>
        /\ completion.kind = "return"
        /\ completion.value.error = Null
        /\ Get(completion.value.result, "isValid") = Bool(TRUE)
        /\ Get(completion.value.result, "domain") \notin {Null, Undefined}
        /\ Get(completion.value.result, "publicSuffix") \notin {Null, Undefined}
        /\ Get(completion.value, "isValid") = Bool(TRUE)
        /\ Truthy(Get(completion.value, "domain"))
        /\ Truthy(Get(completion.value, "publicSuffix"))

\* C6: for an http(s) URL whose host is an IP literal, localhost or another
\* single-label host, the value safeParse returned reads isValid strictly
\* false and isPrivate true.
PrivateHostReadsFalse ==
    (op = "safeParse" /\ ParsedHttpHost(PrivateHosts)) =>
        /\ completion.kind = "return"
        /\ Get(completion.value, "isValid") = Bool(FALSE)
        /\ Get(completion.value, "isPrivate") = Bool(TRUE)

\* C7: assertUrl(url) returns if and only if safeParse(url) gives a result
\* with isValid true and url begins with http; otherwise it raises an
\* assertion failure.
AssertUrlIffValidHttp ==
    (op = "assertUrl" /\ url.t = "url") =>
        LET valid == /\ lib.kind = "result"
                     /\ LibResult(url).isValid = Bool(TRUE)
                     /\ StartsWithHttp(url)
        IN  /\ (completion.kind = "return") <=> valid
            /\ (~valid) => completion = Throw(AssertionError)

----------------------------------------------------------------------------
(* Property of partition *)

\* C8: partition returns as matches exactly the items of arr that satisfy
\* pred and as rest exactly those that do not, each in the original order;
\* the lengths sum to that of arr, and arr is left as it was.
PartitionLaw ==
    /\ arr = arr0
    /\ ppc \in {"loop", "done"} =>
         /\ matches = SelectSeq(SubSeq(arr0, 1, idx), LAMBDA x : x \in pred)
         /\ rest = SelectSeq(SubSeq(arr0, 1, idx), LAMBDA x : x \notin pred)
         /\ Len(matches) + Len(rest) = idx
    /\ ppc = "done" => idx = Len(arr0)

\* C8 witness: partition returned with items on both sides, out of an array
\* in which an accepted item follows a refused one.
PartitionSplitBoth ==
    /\ ppc = "done" /\ matches # <<>> /\ rest # <<>>
    /\ Len(arr) >= 3
    /\ arr[1] \notin pred /\ arr[2] \in pred

----------------------------------------------------------------------------
(* Property of the CLI runner *)

RunnerSafe ==
    /\ spawned <= 1
    /\ Len(exits) <= 1
    /\ rpc = "exited" <=> Len(exits) = 1
    /\ rpc = "exited" =>
         /\ spawned = 1
         /\ exits[1] \in {0, 1}
         /\ exits[1] = 0 <=> closeCode = Num(0)
         /\ (errSeen \/ closeCode \notin {NotClosed, Num(0)}) => exits[1] = 1

\* C10: one subprocess is spawned and never again; under any order of its
\* 'close' and 'error' events the runner eventually exits, once: with 0 if
\* and only if the subprocess closed with code 0, with 1 when it closed with
\* another code or a spawn error occurred.
RunnerExitsOnce == [](RunnerSafe) /\ <>(rpc = "exited")

\* C10 witness: the runner exited after both 'close' and 'error' were handled,
\* 'close' first.
RunnerExitedAfterBothEvents ==
    /\ rpc = "exited" /\ errSeen /\ closeCode # NotClosed
    /\ out[3].line = "Tests failed with exit code"

====
